---- MODULE Spec2Model ----
(***************************************************************************)
(* A model of the three Shopify maintenance scripts:                       *)
(*   clean_shopify_products_descriptions_and_convert_jpeg_to_jpg.py        *)
(*       (_request, get_products, update_product, main)    SpecRequest,    *)
(*                                                         SpecDesc        *)
(*   clean_woo_shopify_metafields.py                       SpecMeta        *)
(*   upload_shopify_files.py                               SpecUpload      *)
(* The remote server is the environment: every response is drawn from a    *)
(* small set when the request is made.  Logs (events, getLog, putLog, ...) *)
(* are history variables recording the requests the scripts issue.         *)
(***************************************************************************)
EXTENDS Integers, Sequences, FiniteSets, TLC

VARIABLES
    \* ---- one call of _request (description script), one attempt per step
    attempt,      \* loop variable of `for attempt in range(6)`
    events,       \* history: responses received and sleeps made, in order
    outcome,      \* "pending" | "returned" | "raised"
    \* ---- description-cleanup run
    store,        \* the shop's products, in the order the server lists them
    pc,           \* "fetch" | "clean" | "done" | "nothing" | "crashed" | "idle"
    page_info,    \* get_products: continuation token, "None" at first
    products,     \* products yielded so far / list(get_products(...))
    getLog,       \* history: page_info of every page request
    pageLog,      \* history: every page response get_products received
    pos,          \* main: number of products whose loop body completed
    updated,
    skipped,
    putLog,       \* history: the update requests issued, in order
    summary,      \* <<>> until the "Done!" line is printed, then <<counts>>
    \* ---- upload run
    upc,          \* "index" | "select" | "upload" | "nothing" | "crashed" | "idle"
    cursor,       \* existing_filenames: cursor of the next files query
    names,        \* existing_filenames: keys collected so far
    cursorLog,    \* history: the cursor variable of every files query
    filePages,    \* history: the data of every files query answered
    already,      \* main: existing_filenames' result
    folder,       \* the names folder.iterdir() lists, in its order
    to_upload,    \* main: the files selected for upload
    remote,       \* the File records the shop holds, in listing order
    up_i,         \* main: files of to_upload whose loop body completed
    target,       \* main: <<>> or <<t>>, the staged target of the current file
    callLog,      \* history: the pipeline calls of this run, in order
    run,          \* which run over the folder this is: 1, 2
    prevLog,      \* history: callLog of the run before
    prevAlready,  \* history: <<>> or <<already>> of the run before
    \* ---- metafield-cleanup run
    shop,         \* the listing the server serves: pages by URL
    mpc,          \* "list" | "scan" | "delete" | "done" | "idle"
    url,          \* get_all_resources: URL of the next page, "None" at the end
    items,        \* get_all_resources: items collected
    listLog,      \* history: the URL of every listing request
    item_i,       \* clean_metafields: items whose loop body completed
    metafields,   \* clean_metafields: get_metafields' result for the item
    mf_i,         \* clean_metafields: metafields of the item visited so far
    deleteLog,    \* history: the delete requests made, [id, status], in order
    fetched,      \* history: the list each get_metafields call returned, in order
    gone,         \* ids of the metafields the server has deleted
    last          \* <<>> or <<r>>: the response the last caller branched on

transportVars == <<attempt, events, outcome>>
descVars == <<store, pc, page_info, products, getLog, pageLog, pos, updated, skipped, putLog, summary>>
indexVars == <<cursor, names, cursorLog, filePages, already>>
rerunVars == <<run, prevLog, prevAlready>>
uploadVars == <<upc, indexVars, folder, to_upload, remote, up_i, target, callLog, rerunVars>>
metaVars == <<shop, mpc, url, items, listLog, item_i, metafields, mf_i, deleteLog, fetched, gone, last>>
vars == <<transportVars, descVars, uploadVars, metaVars>>

None == "None"

RECURSIVE Flatten(_)
Flatten(ss) == IF ss = <<>> THEN <<>> ELSE Head(ss) \o Flatten(Tail(ss))

Range(s) == {s[i] : i \in DOMAIN s}

(***************************************************************************)
(* Responses.  A header that is absent is <<>>; Retry-After: 7 is <<7>>;   *)
(* X-Shopify-Shop-Api-Call-Limit: 32/40 is <<32, 40>>.                     *)
(***************************************************************************)
TOO_MANY_REQUESTS == 429

Statuses == {200, 500, TOO_MANY_REQUESTS}

RetryAfterValues == {<<>>, <<7>>}

CallLimitValues == {<<>>, <<31, 40>>, <<32, 40>>}

Responses == [status : Statuses, retry_after : RetryAfterValues, call_limit : CallLimitValues]

\* requests.Response.ok / raise_for_status: 4xx and 5xx raise HTTPError
IsError(status) == status >= 400 /\ status < 600

(***************************************************************************)
(* _sleep_if_near_limit: whether it sleeps for a response with this quota  *)
(* header: used / total >= 0.8 on the integers read from the header.       *)
(***************************************************************************)
NearLimitStrict(call_limit) ==
    /\ call_limit # <<>>
    /\ call_limit[1] * 10 > call_limit[2] * 8

NearLimit(call_limit) ==
    /\ call_limit # <<>>
    /\ call_limit[1] * 10 >= call_limit[2] * 8

QUOTA_SLEEP == 1

DEFAULT_RETRY_AFTER == 2

MAX_TRIES == 6

LAST_ATTEMPT == 5

SleepEvent(kind, secs) == [ev |-> "sleep", kind |-> kind, secs |-> secs, resp |-> <<>>]

ResponseEvent(resp) == [ev |-> "response", kind |-> "http", secs |-> 0, resp |-> <<resp>>]

\* float(resp.headers.get("Retry-After", "2"))
RetryAfter(resp) == IF resp.retry_after = <<>> THEN DEFAULT_RETRY_AFTER ELSE resp.retry_after[1]

(***************************************************************************)
(* One iteration of the loop of _request, for the response resp received   *)
(* on attempt att: what the call does next, the sleeps it makes.           *)
(***************************************************************************)
RequestStepNoBudget(att, resp) ==
    IF resp.status # TOO_MANY_REQUESTS
    THEN [next   |-> IF IsError(resp.status) THEN "raised" ELSE "returned",
          sleeps |-> IF NearLimit(resp.call_limit)
                     THEN <<SleepEvent("quota", QUOTA_SLEEP)>> ELSE <<>>]
    ELSE [next |-> "retry", sleeps |-> <<SleepEvent("retry", RetryAfter(resp))>>]

RequestStepRetryAll(att, resp) ==
    IF resp.status # TOO_MANY_REQUESTS /\ ~IsError(resp.status)
    THEN [next   |-> "returned",
          sleeps |-> IF NearLimit(resp.call_limit)
                     THEN <<SleepEvent("quota", QUOTA_SLEEP)>> ELSE <<>>]
    ELSE IF att = LAST_ATTEMPT
         THEN [next |-> "raised", sleeps |-> <<>>]
         ELSE [next |-> "retry", sleeps |-> <<SleepEvent("retry", RetryAfter(resp))>>]

RequestStep(att, resp) ==
    IF resp.status # TOO_MANY_REQUESTS
    THEN [next   |-> IF IsError(resp.status) THEN "raised" ELSE "returned",
          sleeps |-> IF NearLimit(resp.call_limit)
                     THEN <<SleepEvent("quota", QUOTA_SLEEP)>> ELSE <<>>]
    ELSE IF att = LAST_ATTEMPT
         THEN [next |-> "raised", sleeps |-> <<>>]
         ELSE [next |-> "retry", sleeps |-> <<SleepEvent("retry", RetryAfter(resp))>>]

\* _request, one attempt: session.request(...) answered by resp
Attempt ==
    /\ outcome = "pending"
    /\ attempt < MAX_TRIES
    /\ \E resp \in Responses :
         LET step == RequestStep(attempt, resp) IN
           /\ events' = events \o <<ResponseEvent(resp)>> \o step.sleeps
           /\ outcome' = IF step.next = "retry" THEN "pending" ELSE step.next
           /\ attempt' = IF step.next = "retry" THEN attempt + 1 ELSE attempt
    /\ UNCHANGED <<descVars, uploadVars, metaVars>>


(***************************************************************************)
(* _request as one call: rs is the sequence of responses the server gives  *)
(* to the successive attempts.  The result is what the caller sees.        *)
(***************************************************************************)
RECURSIVE RequestFrom(_, _)
RequestFrom(att, rs) ==
    IF rs = <<>> \/ att >= MAX_TRIES
    THEN [next |-> "returned_none", resp |-> <<>>, tries |-> att]
    ELSE LET step == RequestStep(att, Head(rs)) IN
           IF step.next = "retry"
           THEN RequestFrom(att + 1, Tail(rs))
           ELSE [next |-> step.next, resp |-> <<Head(rs)>>, tries |-> att + 1]

Request(rs) == RequestFrom(0, rs)

\* a 429 the server may answer with, extended with the fields of a page
Rejection == [status |-> TOO_MANY_REQUESTS, retry_after |-> <<7>>, call_limit |-> <<>>,
              data |-> <<>>, link |-> <<>>]

\* how many 429 responses precede the final response of a call
Rejections == {0, 1, 6}

Replies(final) == {[i \in 1..(k + 1) |-> IF i <= k THEN Rejection ELSE final] : k \in Rejections}

(***************************************************************************)
(* body_html and clean_description.  A description is a sequence of HTML   *)
(* nodes; null is the JSON null Shopify returns for a missing description. *)
(*   "panel"          a .panel-layout .panel-grid holding a                *)
(*                    .woonder-products__container                         *)
(*   "img_cdn_jpeg"   <img src> on a Shopify CDN host, path ending .jpeg   *)
(*   "img_cdn_jpg"    the same with .jpg                                   *)
(*   "img_other_jpeg" <img src> on another host, path ending .jpeg         *)
(*   "<br>"           a void element, serialised by BeautifulSoup as <br/> *)
(***************************************************************************)
Html(nodes) == [null |-> FALSE, nodes |-> nodes]

NullBody == [null |-> TRUE, nodes |-> <<>>]

\* _to_jpg on the node's URL
ToJpg(node) == IF node = "img_cdn_jpeg" THEN "img_cdn_jpg" ELSE node

\* str(soup) of a node left in the tree
Serialise(node) == IF node = "<br>" THEN "<br/>" ELSE node

RECURSIVE CleanNodes(_)
CleanNodes(nodes) ==
    IF nodes = <<>> THEN <<>>
    ELSE IF Head(nodes) = "panel" THEN CleanNodes(Tail(nodes))
    ELSE <<Serialise(ToJpg(Head(nodes)))>> \o CleanNodes(Tail(nodes))

\* clean_description(html): BeautifulSoup(html or "") ... str(soup)
clean_description(html) == Html(CleanNodes(html.nodes))

Unchanged == Html(<<"text", "img_cdn_jpg">>)

OtherHost == Html(<<"img_other_jpeg">>)

Product(id, body) == [id |-> id, body_html |-> body]

\* the shops the run may meet: products 1, 3, 5 need cleaning; none does;
\* all do
Stores ==
    { <<Product(1, Html(<<"img_cdn_jpeg">>)), Product(2, Unchanged),
        Product(3, Html(<<"panel", "text">>)), Product(4, OtherHost),
        Product(5, NullBody), Product(6, Html(<<>>))>>,
      <<Product(1, Unchanged), Product(2, OtherHost), Product(3, Html(<<>>)),
        Product(4, Unchanged), Product(5, OtherHost), Product(6, Unchanged)>>,
      <<Product(1, Html(<<"text", "<br>">>)), Product(2, NullBody),
        Product(3, Html(<<"panel">>)), Product(4, Html(<<"img_cdn_jpeg", "text">>)),
        Product(5, Html(<<"panel", "img_cdn_jpeg">>)), Product(6, NullBody)>> }

\* numbers of products the server may put on one page
PageSizes == {0, 1, 2}

\* page requests one run may make
MaxPages == 3

(***************************************************************************)
(* Link header: a sequence of relations [rel, page_info]; page_info is the *)
(* value of that query parameter in the relation's URL, "" when blank.     *)
(***************************************************************************)
Rel(rel, token) == [rel |-> rel, page_info |-> token]

LinkHeaders ==
    { <<>>,
      <<Rel("previous", "t1")>>,
      <<Rel("next", "t1")>>,
      <<Rel("next", "t2")>>,
      <<Rel("previous", "t1"), Rel("next", "t2")>>,
      <<Rel("next", "")>> }

\* next((l for l in links if l.get("rel") == "next"), None), then
\* parse_qs(urlparse(next_link["url"]).query).get("page_info", [None])[0]
FirstPageInfo(link) ==
    IF link = <<>> THEN None
    ELSE IF Head(link).page_info = "" THEN None ELSE Head(link).page_info

NextPageInfo(link) ==
    LET nexts == SelectSeq(link, LAMBDA l : l.rel = "next") IN
      IF nexts = <<>> THEN None
      ELSE IF Head(nexts).page_info = "" THEN None ELSE Head(nexts).page_info

\* the page responses the server may give when products[1..served] are out
PageResponses(served) ==
    { [status |-> 200, retry_after |-> <<>>, call_limit |-> <<>>,
       data |-> SubSeq(store, served + 1, served + n), link |-> link]
        : n \in {m \in PageSizes : served + m <= Len(store)}, link \in LinkHeaders }
    \cup
    { [status |-> 500, retry_after |-> <<>>, call_limit |-> <<>>, data |-> <<>>, link |-> <<>>] }

\* main after list(get_products(...)) returned: `if not products: ... return`
AfterListing(listed) == IF listed = <<>> THEN "nothing" ELSE "clean"

FetchFailedContinue(listed) == AfterListing(listed)

\* main: list(get_products(...)) is not guarded: an exception raised while a
\* page is fetched leaves main, whatever was listed before
FetchFailed(listed) == "crashed"

\* get_products, one iteration of `while True`, and main's list(...) around it
FetchPage ==
    /\ pc = "fetch"
    /\ Len(getLog) < MaxPages
    /\ \E final \in PageResponses(Len(products)) : \E rs \in Replies(final) :
         LET r == Request(rs) IN
           /\ getLog' = Append(getLog, page_info)
           /\ IF r.next # "returned"
              THEN /\ pc' = FetchFailed(products)
                   /\ UNCHANGED <<page_info, products, pageLog>>
              ELSE LET resp == r.resp[1]
                       data == resp.data
                   IN  /\ pageLog' = Append(pageLog, resp)
                       /\ products' = products \o data
                       /\ IF data = <<>>
                          THEN /\ pc' = AfterListing(products)
                               /\ UNCHANGED page_info
                          ELSE IF NextPageInfo(resp.link) = None
                          THEN /\ pc' = AfterListing(products \o data)
                               /\ UNCHANGED page_info
                          ELSE /\ pc' = "fetch"
                               /\ page_info' = NextPageInfo(resp.link)
    /\ UNCHANGED <<store, pos, updated, skipped, putLog, summary, transportVars, uploadVars, metaVars>>

\* the responses the server may give to an update (PUT) request
UpdateResponses ==
    { [status |-> st, retry_after |-> <<>>, call_limit |-> <<>>, data |-> <<>>, link |-> <<>>]
        : st \in {200, 500} }

\* main: `if cleaned != original`
NeedsUpdateAlways(original, cleaned) == TRUE

NeedsUpdateInverted(original, cleaned) == cleaned = original

NeedsUpdate(original, cleaned) == cleaned # original

\* main, one iteration of `for prod in products`, update_product included
CleanProduct ==
    /\ pc = "clean"
    /\ pos < Len(products)
    /\ LET prod == products[pos + 1]
           original == prod.body_html
           cleaned == clean_description(original)
       IN  IF NeedsUpdate(original, cleaned)
           THEN \E final \in UpdateResponses : \E rs \in Replies(final) :
                  /\ putLog' = Append(putLog, [id |-> prod.id, body_html |-> cleaned])
                  /\ IF Request(rs).next = "returned"
                     THEN /\ updated' = updated + 1
                          /\ pos' = pos + 1
                          /\ UNCHANGED pc
                     ELSE /\ pc' = "crashed"
                          /\ UNCHANGED <<updated, pos>>
                  /\ UNCHANGED skipped
           ELSE /\ skipped' = skipped + 1
                /\ pos' = pos + 1
                /\ UNCHANGED <<pc, updated, putLog>>
    /\ UNCHANGED <<store, page_info, products, getLog, pageLog, summary, transportVars, uploadVars, metaVars>>

\* main: the loop is over, print(f"Done! {updated} updated, ...")
PrintSummary ==
    /\ pc = "clean"
    /\ pos = Len(products)
    /\ summary' = <<[updated |-> updated, skipped |-> skipped, total |-> Len(products)]>>
    /\ pc' = "done"
    /\ UNCHANGED <<store, page_info, products, getLog, pageLog, pos, updated, skipped,
                   putLog, transportVars, uploadVars, metaVars>>

(***************************************************************************)
(* upload_shopify_files.py.  File names, alt texts and URL segments are    *)
(* sequences of characters, so that lower(), replace() and strip() are     *)
(* computed.                                                               *)
(***************************************************************************)
\* str.lower() on one character
LowerChar(c) ==
    CASE c = "A" -> "a"
      [] c = "E" -> "e"
      [] c = "G" -> "g"
      [] c = "J" -> "j"
      [] c = "P" -> "p"
      [] OTHER -> c

Lower(str) == [i \in 1..Len(str) |-> LowerChar(str[i])]

StartsWith(str, prefix) ==
    Len(str) >= Len(prefix) /\ SubSeq(str, 1, Len(prefix)) = prefix

DotJpeg == <<".", "j", "p", "e", "g">>

DotJpg == <<".", "j", "p", "g">>

\* str.replace(".jpeg", ".jpg"): every occurrence, left to right
RECURSIVE ReplaceJpeg(_)
ReplaceJpeg(str) ==
    IF str = <<>> THEN <<>>
    ELSE IF StartsWith(str, DotJpeg)
         THEN DotJpg \o ReplaceJpeg(SubSeq(str, Len(DotJpeg) + 1, Len(str)))
         ELSE <<Head(str)>> \o ReplaceJpeg(Tail(str))

\* str.strip(): leading and trailing whitespace removed
RECURSIVE LStrip(_)
LStrip(str) ==
    IF str # <<>> /\ Head(str) = " " THEN LStrip(Tail(str)) ELSE str

RECURSIVE RStrip(_)
RStrip(str) ==
    IF str # <<>> /\ str[Len(str)] = " " THEN RStrip(SubSeq(str, 1, Len(str) - 1)) ELSE str

Strip(str) == LStrip(RStrip(str))

\* n.lower().replace(".jpeg", ".jpg"), on both sides of the existence check
Normalise(name) == ReplaceJpeg(Lower(name))

\* a URL: its path segments and its query string
Url(segments, query) == [path |-> segments, query |-> query]

\* Path(urlparse(url).path).name
Basename(u) == u.path[Len(u.path)]

FILES == <<"f", "i", "l", "e", "s">>

A_JPG == <<"a", ".", "j", "p", "g">>

A_JPEG == <<"a", ".", "j", "p", "e", "g">>

A_JPEG_UPPER == <<"a", ".", "J", "P", "E", "G">>

SPACE_A_JPG == <<" ", "a", ".", "j", "p", "g">>

B_PNG == <<"b", ".", "p", "n", "g">>

X_PNG == <<"x", ".", "p", "n", "g">>

FileNode(typename, u, alt) == [typename |-> typename, url |-> u, alt |-> alt]

\* the File records the shop may hold at the start; alt is <<>> when null
RemoteStates ==
    { <<>>,
      <<FileNode("MediaImage", Url(<<FILES, X_PNG>>, ""), <<A_JPEG>>)>>,
      <<FileNode("GenericFile", Url(<<FILES, A_JPG>>, "v=1"), <<>>),
        FileNode("MediaImage", Url(<<FILES, X_PNG>>, ""), <<SPACE_A_JPG>>),
        FileNode("Video", Url(<<>>, ""), <<>>)>> }

\* the keys existing_filenames adds to names for one edge
NodeKeys(node) ==
    (IF node.typename \in {"GenericFile", "MediaImage"} THEN {Basename(node.url)} ELSE {})
    \cup
    (IF node.alt # <<>> /\ node.alt[1] # <<>> THEN {Strip(node.alt[1])} ELSE {})

PageInfos ==
    { [hasNextPage |-> FALSE, endCursor |-> None],
      [hasNextPage |-> TRUE, endCursor |-> "c1"],
      [hasNextPage |-> TRUE, endCursor |-> "c2"] }

\* numbers of edges the server may put on one page of the files query
FilePageSizes == {0, 1, 2}

\* the edges this run has been served so far
ServedEdges == Flatten([i \in 1..Len(filePages) |-> filePages[i].edges])

\* what the server may answer to the files query: the next records of
\* remote, any pageInfo, or a failure
FilesResponses ==
    { [status |-> 200, errors |-> FALSE, pageInfo |-> pi,
       edges |-> SubSeq(remote, Len(ServedEdges) + 1, Len(ServedEdges) + n)]
        : n \in {m \in FilePageSizes : Len(ServedEdges) + m <= Len(remote)}, pi \in PageInfos }
    \cup
    { [status |-> 500, errors |-> FALSE, edges |-> <<>>, pageInfo |-> [hasNextPage |-> FALSE, endCursor |-> None]],
      [status |-> 200, errors |-> TRUE, edges |-> <<>>, pageInfo |-> [hasNextPage |-> FALSE, endCursor |-> None]] }

\* graphql(): raise_for_status, then RuntimeError on payload["errors"]
GraphqlRaises(resp) == IsError(resp.status) \/ resp.errors

\* cursor = data["files"]["pageInfo"]["endCursor"]
KeepCursor(old, pageInfo) == old

NextCursor(old, pageInfo) == pageInfo.endCursor

\* files queries one run may make
MaxFilePages == 3

\* existing_filenames, one iteration of `while True`; on the last one the
\* return statement, whose value main stores in `already`
FetchFiles ==
    /\ upc = "index"
    /\ Len(cursorLog) < MaxFilePages
    /\ \E resp \in FilesResponses :
         /\ cursorLog' = Append(cursorLog, cursor)
         /\ IF GraphqlRaises(resp)
            THEN /\ upc' = "crashed"
                 /\ UNCHANGED <<cursor, names, filePages, already>>
            ELSE LET collected == names \cup UNION {NodeKeys(resp.edges[i]) : i \in DOMAIN resp.edges}
                 IN  /\ names' = collected
                     /\ filePages' = Append(filePages, resp)
                     /\ IF ~resp.pageInfo.hasNextPage
                        THEN /\ already' = {Normalise(n) : n \in collected}
                             /\ upc' = "select"
                             /\ UNCHANGED cursor
                        ELSE /\ cursor' = NextCursor(cursor, resp.pageInfo)
                             /\ UNCHANGED <<upc, already>>
    /\ UNCHANGED <<folder, to_upload, remote, up_i, target, callLog, rerunVars,
                   transportVars, descVars, metaVars>>

\* the directory listings folder.iterdir() may give
Folders ==
    { <<A_JPEG_UPPER, B_PNG>>,
      <<A_JPG, B_PNG>>,
      <<SPACE_A_JPG>>,
      <<A_JPEG, A_JPG>> }

SelectedAll(listing, index) == listing

\* main: [p for p in folder.iterdir() if p.is_file() and
\*        p.name.lower().replace(".jpeg", ".jpg") not in already]
Selected(listing, index) == SelectSeq(listing, LAMBDA name : Normalise(name) \notin index)

\* main: to_upload = ...; if not to_upload: print, return
SelectUploads ==
    /\ upc = "select"
    /\ LET selected == Selected(folder, already)
       IN  /\ to_upload' = selected
           /\ upc' = IF selected = <<>> THEN "nothing" ELSE "upload"
    /\ UNCHANGED <<indexVars, folder, remote, up_i, target, callLog, rerunVars,
                   transportVars, descVars, metaVars>>

EndsWith(str, suffix) ==
    Len(str) >= Len(suffix) /\ SubSeq(str, Len(str) - Len(suffix) + 1, Len(str)) = suffix

\* mimetypes.guess_type(path)[0] or "application/octet-stream"
guess_type(name) ==
    IF EndsWith(Lower(name), DotJpg) \/ EndsWith(Lower(name), DotJpeg) THEN "image/jpeg"
    ELSE IF EndsWith(Lower(name), <<".", "p", "n", "g">>) THEN "image/png"
    ELSE "application/octet-stream"

\* finalize_file: "IMAGE" if mime.startswith("image/") else "FILE"
ContentType(mime) == IF mime \in {"image/jpeg", "image/png"} THEN "IMAGE" ELSE "FILE"

\* what the server may answer to stagedUploadsCreate and to fileCreate
MutationResponses ==
    { [status |-> 200, errors |-> FALSE, userErrors |-> FALSE],
      [status |-> 500, errors |-> FALSE, userErrors |-> FALSE],
      [status |-> 200, errors |-> TRUE, userErrors |-> FALSE],
      [status |-> 200, errors |-> FALSE, userErrors |-> TRUE] }

\* stage_upload / finalize_file: graphql() raises, or userErrors raise
MutationRaises(resp) == GraphqlRaises(resp) \/ resp.userErrors

\* what the signed S3 URL may answer to the form POST
S3Statuses == {201, 403}

\* stagedTargets[0] for a file name
StagedTarget(name) ==
    [url |-> "s3", resourceUrl |-> Url(<<FILES, name>>, ""), parameters |-> "signed"]

\* the File record fileCreate makes of originalSource, contentType and alt
CreatedRecord(originalSource, contentType, alt) ==
    FileNode(IF contentType = "IMAGE" THEN "MediaImage" ELSE "GenericFile",
             originalSource, <<alt>>)

Call(name, phase, ok) == [file |-> name, phase |-> phase, ok |-> ok]

\* main, loop body: what follows a failed call (the exception leaves main)
OnNegotiateFailure == "crashed"

OnTransferFailureGoOn == "finalize"

OnTransferFailure == "crashed"

\* main, loop body: target = stage_upload(session, store, path, mime)
StageUpload ==
    /\ upc = "upload"
    /\ up_i < Len(to_upload)
    /\ LET path == to_upload[up_i + 1] IN
         \E resp \in MutationResponses :
           /\ callLog' = Append(callLog, Call(path, "negotiate", ~MutationRaises(resp)))
           /\ IF MutationRaises(resp)
              THEN /\ upc' = OnNegotiateFailure
                   /\ UNCHANGED target
              ELSE /\ upc' = "transfer"
                   /\ target' = <<StagedTarget(path)>>
    /\ UNCHANGED <<indexVars, folder, to_upload, remote, up_i, rerunVars,
                   transportVars, descVars, metaVars>>

\* main, loop body: s3_post(target, path)
S3Post ==
    /\ upc = "transfer"
    /\ LET path == to_upload[up_i + 1] IN
         \E status \in S3Statuses :
           /\ callLog' = Append(callLog, Call(path, "transfer", ~IsError(status)))
           /\ upc' = IF IsError(status) THEN OnTransferFailure ELSE "finalize"
    /\ UNCHANGED <<indexVars, folder, to_upload, remote, up_i, target, rerunVars,
                   transportVars, descVars, metaVars>>

\* main, loop body: finalize_file(session, store, target, path, mime); the
\* server creates the record exactly when fileCreate answers without error.
\* After the last file: print("Done!")
FinalizeFile ==
    /\ upc = "finalize"
    /\ LET path == to_upload[up_i + 1]
           mime == guess_type(path)
       IN  \E resp \in MutationResponses :
             /\ callLog' = Append(callLog, Call(path, "finalize", ~MutationRaises(resp)))
             /\ IF MutationRaises(resp)
                THEN /\ upc' = "crashed"
                     /\ UNCHANGED <<remote, up_i>>
                ELSE /\ remote' = Append(remote, CreatedRecord(target[1].resourceUrl,
                                                               ContentType(mime), path))
                     /\ up_i' = up_i + 1
                     /\ upc' = IF up_i + 1 = Len(to_upload) THEN "done" ELSE "upload"
    /\ target' = <<>>
    /\ UNCHANGED <<indexVars, folder, to_upload, rerunVars, transportVars, descVars, metaVars>>

\* the listing of a run covered every record the shop held when it was made
\* (records made by this run's own finalize calls come after it)
OkFinalizes(log) == {i \in DOMAIN log : log[i].phase = "finalize" /\ log[i].ok}

IndexComplete ==
    /\ upc \notin {"index", "select"}
    /\ upc = "crashed" => callLog # <<>>
    /\ Len(ServedEdges) = Len(remote) - Cardinality(OkFinalizes(callLog))

\* the script is started again over the same folder
StartNextRun ==
    /\ upc \in {"done", "crashed", "nothing"}
    /\ run = 1
    /\ run' = 2
    /\ prevLog' = callLog
    /\ prevAlready' = IF IndexComplete THEN <<already>> ELSE <<>>
    /\ upc' = "index"
    /\ cursor' = None
    /\ names' = {}
    /\ cursorLog' = <<>>
    /\ filePages' = <<>>
    /\ already' = {}
    /\ to_upload' = <<>>
    /\ up_i' = 0
    /\ target' = <<>>
    /\ callLog' = <<>>
    /\ UNCHANGED <<folder, remote, transportVars, descVars, metaVars>>


(***************************************************************************)
(* clean_woo_shopify_metafields.py.  The shop is a fixed listing: the page *)
(* served for each URL, with its items, their metafields and its Link      *)
(* header (a sequence of relations [url, rel], in header order).           *)
(***************************************************************************)
WOO == <<"w", "o", "o">>

WOO_C == <<"w", "o", "o", "c">>

WO == <<"w", "o">>

CUSTOM == <<"c", "u", "s">>

Metafield(id, namespace) == [id |-> id, namespace |-> namespace]

Item(id, mfs) == [id |-> id, metafields |-> mfs]

LinkRel(u, rel) == [url |-> u, rel |-> rel]

ListingPage(u, data, link) == [url |-> u, data |-> data, link |-> link]

FIRST_URL == "u1"

Shops ==
    { \* three pages, the middle one linking back and forward
      << ListingPage("u1", <<Item(1, <<Metafield(11, WOO), Metafield(12, CUSTOM)>>),
                            Item(2, <<>>)>>,
                     <<LinkRel("u2", "next")>>),
         ListingPage("u2", <<Item(3, <<Metafield(31, WOO), Metafield(32, WOO_C)>>)>>,
                     <<LinkRel("u1", "previous"), LinkRel("u3", "next")>>),
         ListingPage("u3", <<Item(4, <<Metafield(41, WO)>>)>>,
                     <<LinkRel("u2", "previous")>>) >>,
      \* an empty first page that advertises a next page
      << ListingPage("u1", <<>>, <<LinkRel("u2", "next")>>),
         ListingPage("u2", <<Item(1, <<Metafield(11, WOO)>>)>>, <<>>) >>,
      \* one page, no Link header
      << ListingPage("u1", <<Item(1, <<Metafield(11, CUSTOM), Metafield(12, WOO)>>),
                            Item(2, <<Metafield(21, WOO_C)>>)>>, <<>>) >>,
      \* two pages, forward links only
      << ListingPage("u1", <<Item(1, <<Metafield(11, WOO)>>)>>, <<LinkRel("u2", "next")>>),
         ListingPage("u2", <<Item(2, <<Metafield(21, WOO), Metafield(22, WO)>>)>>, <<>>) >> }

\* the page the server serves for URL u
PageAt(u) == shop[CHOOSE i \in DOMAIN shop : shop[i].url = u]

\* status and rate-limit headers the server may answer any request with
MetaHeaders ==
    { [status |-> 200, retry_after |-> <<>>, call_limit |-> <<>>],
      [status |-> 200, retry_after |-> <<>>, call_limit |-> <<32, 40>>],
      [status |-> TOO_MANY_REQUESTS, retry_after |-> <<>>, call_limit |-> <<>>],
      [status |-> TOO_MANY_REQUESTS, retry_after |-> <<7>>, call_limit |-> <<32, 40>>],
      [status |-> 500, retry_after |-> <<>>, call_limit |-> <<>>] }

META_QUOTA_SLEEP == 5

\* rate_limit_sleep(response): the sleeps it makes, in order
rate_limit_sleep(response) ==
    (IF response.call_limit # <<>> /\ response.call_limit[1] * 10 >= response.call_limit[2] * 8
     THEN <<META_QUOTA_SLEEP>> ELSE <<>>)
    \o
    (IF response.status = TOO_MANY_REQUESTS THEN <<RetryAfter(response)>> ELSE <<>>)

\* what a caller has in hand after `rate_limit_sleep(response)`
Branched(fn, response) ==
    <<[fn |-> fn, status |-> response.status, naps |-> rate_limit_sleep(response)]>>

\* get_all_resources: `if link and 'rel="next"' in link:
\*     url = link.split(";")[0].strip("<> ")`, else None
NextUrl(link) ==
    IF link # <<>> /\ \E i \in DOMAIN link : link[i].rel = "next"
    THEN Head(link).url
    ELSE None

\* listing requests one run may make
MaxListRequests == 4

\* get_all_resources, one iteration of `while url`
ListPage ==
    /\ mpc = "list"
    /\ Len(listLog) < MaxListRequests
    /\ \E response \in MetaHeaders :
         /\ listLog' = Append(listLog, url)
         /\ last' = Branched("get_all_resources", response)
         /\ IF IsError(response.status)
            THEN /\ mpc' = "scan"
                 /\ UNCHANGED <<url, items>>
            ELSE LET page == PageAt(url) IN
                   /\ items' = items \o page.data
                   /\ url' = NextUrl(page.link)
                   /\ mpc' = IF NextUrl(page.link) = None THEN "scan" ELSE "list"
    /\ UNCHANGED <<shop, item_i, metafields, mf_i, deleteLog, fetched, gone, transportVars, descVars, uploadVars>>

\* clean_metafields: metafields = get_metafields(..., item["id"])
GetMetafields ==
    /\ mpc = "scan"
    /\ item_i < Len(items)
    /\ \E response \in MetaHeaders :
         /\ last' = Branched("get_metafields", response)
         /\ LET returned == IF IsError(response.status) THEN <<>>
                             ELSE SelectSeq(items[item_i + 1].metafields,
                                            LAMBDA mf : mf.id \notin gone)
            IN  /\ metafields' = returned
                /\ fetched' = Append(fetched, returned)
    /\ mf_i' = 0
    /\ mpc' = "delete"
    /\ UNCHANGED <<shop, url, items, listLog, item_i, deleteLog, gone, transportVars, descVars, uploadVars>>

ShouldDeleteLoose(mf) == StartsWith(mf.namespace, WO)

\* clean_metafields: `if mf["namespace"].startswith("woo")`
ShouldDelete(mf) == StartsWith(mf.namespace, WOO)

AfterDeleteAbort(response) == IF response.status = 200 THEN "delete" ELSE "done"

\* delete_metafield prints on 200 and on any other status and returns: the
\* loops of clean_metafields go on
AfterDelete(response) == "delete"

\* clean_metafields, one iteration of `for mf in metafields`; the server
\* removes the metafield exactly when it answers the delete with 200
VisitMetafield ==
    /\ mpc = "delete"
    /\ mf_i < Len(metafields)
    /\ LET mf == metafields[mf_i + 1] IN
         IF ShouldDelete(mf)
         THEN \E response \in MetaHeaders :
                /\ deleteLog' = Append(deleteLog, [id |-> mf.id, status |-> response.status])
                /\ gone' = IF response.status = 200 THEN gone \cup {mf.id} ELSE gone
                /\ last' = Branched("delete_metafield", response)
                /\ mpc' = AfterDelete(response)
         ELSE UNCHANGED <<deleteLog, gone, last, mpc>>
    /\ mf_i' = mf_i + 1
    /\ UNCHANGED <<shop, url, items, listLog, item_i, metafields, fetched, transportVars, descVars, uploadVars>>

\* clean_metafields: the inner loop is over, on to the next item
NextItem ==
    /\ mpc = "delete"
    /\ mf_i = Len(metafields)
    /\ item_i' = item_i + 1
    /\ mpc' = "scan"
    /\ UNCHANGED <<shop, url, items, listLog, metafields, mf_i, deleteLog, fetched, gone, last, transportVars, descVars, uploadVars>>

\* clean_metafields returns
FinishScan ==
    /\ mpc = "scan"
    /\ item_i = Len(items)
    /\ mpc' = "done"
    /\ UNCHANGED <<shop, url, items, listLog, item_i, metafields, mf_i, deleteLog, fetched, gone, last, transportVars, descVars, uploadVars>>


InitTransport ==
    /\ attempt = 0
    /\ events = <<>>

InitDescIdle ==
    /\ store = <<>>
    /\ pc = "idle"
    /\ page_info = None
    /\ products = <<>>
    /\ getLog = <<>>
    /\ pageLog = <<>>
    /\ pos = 0
    /\ updated = 0
    /\ skipped = 0
    /\ putLog = <<>>
    /\ summary = <<>>

InitUploadIdle ==
    /\ upc = "idle"
    /\ cursor = None
    /\ names = {}
    /\ cursorLog = <<>>
    /\ filePages = <<>>
    /\ already = {}
    /\ folder = <<>>
    /\ to_upload = <<>>
    /\ remote = <<>>
    /\ up_i = 0
    /\ target = <<>>
    /\ callLog = <<>>
    /\ run = 1
    /\ prevLog = <<>>
    /\ prevAlready = <<>>

InitMetaIdle ==
    /\ shop = <<>>
    /\ mpc = "idle"
    /\ url = None
    /\ items = <<>>
    /\ listLog = <<>>
    /\ item_i = 0
    /\ metafields = <<>>
    /\ mf_i = 0
    /\ deleteLog = <<>>
    /\ fetched = <<>>
    /\ gone = {}
    /\ last = <<>>

InitRequest ==
    /\ InitTransport
    /\ outcome = "pending"
    /\ InitDescIdle
    /\ InitUploadIdle
    /\ InitMetaIdle

NextRequest == Attempt

SpecRequest == InitRequest /\ [][NextRequest]_vars

InitDesc ==
    /\ InitTransport
    /\ outcome = "idle"
    /\ store \in Stores
    /\ pc = "fetch"
    /\ page_info = None
    /\ products = <<>>
    /\ getLog = <<>>
    /\ pageLog = <<>>
    /\ pos = 0
    /\ updated = 0
    /\ skipped = 0
    /\ putLog = <<>>
    /\ summary = <<>>
    /\ InitUploadIdle
    /\ InitMetaIdle

NextDesc == FetchPage \/ CleanProduct \/ PrintSummary

SpecDesc == InitDesc /\ [][NextDesc]_vars

InitUpload ==
    /\ InitTransport
    /\ outcome = "idle"
    /\ InitDescIdle
    /\ upc = "index"
    /\ cursor = None
    /\ names = {}
    /\ cursorLog = <<>>
    /\ filePages = <<>>
    /\ already = {}
    /\ folder \in Folders
    /\ to_upload = <<>>
    /\ remote \in RemoteStates
    /\ up_i = 0
    /\ target = <<>>
    /\ callLog = <<>>
    /\ run = 1
    /\ prevLog = <<>>
    /\ prevAlready = <<>>
    /\ InitMetaIdle

NextUpload == FetchFiles \/ SelectUploads \/ StageUpload \/ S3Post \/ FinalizeFile

SpecUpload == InitUpload /\ [][NextUpload]_vars

NextRerun == NextUpload \/ StartNextRun

SpecRerun == InitUpload /\ [][NextRerun]_vars

InitMeta ==
    /\ InitTransport
    /\ outcome = "idle"
    /\ InitDescIdle
    /\ InitUploadIdle
    /\ shop \in Shops
    /\ mpc = "list"
    /\ url = FIRST_URL
    /\ items = <<>>
    /\ listLog = <<>>
    /\ item_i = 0
    /\ metafields = <<>>
    /\ mf_i = 0
    /\ deleteLog = <<>>
    /\ fetched = <<>>
    /\ gone = {}
    /\ last = <<>>

NextMeta == ListPage \/ GetMetafields \/ VisitMetafield \/ NextItem \/ FinishScan

SpecMeta == InitMeta /\ [][NextMeta]_vars

(***************************************************************************)
(* Properties of _request (SpecRequest)                                    *)
(***************************************************************************)
ResponseEvents == SelectSeq(events, LAMBDA e : e.ev = "response")

\* the responses the call has received, in order
Received == [i \in 1..Len(ResponseEvents) |-> ResponseEvents[i].resp[1]]

IsSleepAt(i) == i \in DOMAIN events /\ events[i].ev = "sleep"

\* C1: k <= 5 rejections (429) followed by a success: the call returns that
\* success on attempt k+1 and has slept, after each rejection and before the
\* retry, for the rejection's Retry-After (2 when absent); six rejections: the
\* call raises on the sixth attempt and there is never a seventh request.
C1_RetryBudget ==
    LET r == Received
        n == Len(r)
    IN  /\ n <= 6
        /\ \A k \in 0..5 :
             ( /\ n = k + 1
               /\ \A i \in 1..k : r[i].status = 429
               /\ r[k + 1].status = 200 )
             => /\ outcome = "returned"
                /\ attempt = k
                /\ \A i \in 1..k :
                     /\ events[2 * i - 1] = ResponseEvent(r[i])
                     /\ events[2 * i].ev = "sleep"
                     /\ events[2 * i].secs =
                          (IF r[i].retry_after = <<>> THEN 2 ELSE r[i].retry_after[1])
                /\ events[2 * k + 1] = ResponseEvent(r[k + 1])
                /\ Len(SelectSeq(events, LAMBDA e : e.kind = "retry")) = k
        /\ (n >= 6 /\ \A i \in 1..6 : r[i].status = 429)
             => (outcome = "raised" /\ n = 6 /\ ~IsSleepAt(Len(events)))

C1_Witness ==
    /\ outcome = "returned"
    /\ Len(Received) = 6
    /\ Received[1].retry_after = <<>>
    /\ Received[2].retry_after = <<7>>

\* the quota header of a response shows used/capacity >= 0.8
AtOrOverThreshold(resp) ==
    /\ resp.call_limit # <<>>
    /\ resp.call_limit[1] * 5 >= resp.call_limit[2] * 4

\* the response at events[i] is the last thing the call did before raising
RaisedAt(i) == outcome = "raised" /\ i = Len(events)

AdvertisedNext(link) == {l.page_info : l \in {m \in Range(link) : m.rel = "next"}}

\* every page fetched so far is non-empty, every page but the last advertises
\* one rel="next" link with a non-empty page_info, the last advertises none
WellFormedListing ==
    LET n == Len(pageLog) IN
      /\ n >= 1
      /\ \A i \in 1..n : pageLog[i].status = 200 /\ pageLog[i].data # <<>>
      /\ \A i \in 1..(n - 1) :
           \E t \in {"t1", "t2"} : AdvertisedNext(pageLog[i].link) = {t}
      /\ AdvertisedNext(pageLog[n].link) = {}

\* C4: over such a listing get_products yields the concatenation of the
\* pages' items in server order, asks for each page once, with the page_info
\* the preceding response advertised (none for the first), and asks for
\* nothing after the last page.
C4_HeaderCursorEnumeration ==
    WellFormedListing =>
        LET n == Len(pageLog) IN
          /\ products = Flatten([i \in 1..n |-> pageLog[i].data])
          /\ Len(getLog) = n
          /\ getLog[1] = None
          /\ \A i \in 1..(n - 1) : AdvertisedNext(pageLog[i].link) = {getLog[i + 1]}
          /\ pc \in {"clean", "done", "crashed"}
          /\ pc = "crashed" => putLog # <<>>

C4_Witness ==
    /\ WellFormedListing
    /\ Len(pageLog) = 3
    /\ pageLog[2].link = <<Rel("previous", "t1"), Rel("next", "t2")>>
    /\ Len(products) = 6
    /\ pc = "done"

Changed(prod) == clean_description(prod.body_html) # prod.body_html

PutIds == {putLog[j].id : j \in DOMAIN putLog}

\* C7: an update request is issued for a product exactly when its cleaned
\* description differs from the original; when no description changes, no
\* update request is issued and the run ends with skipped = number of items
\* and updated = 0.
C7_WriteOnlyWhenChanged ==
    /\ \A i \in 1..Len(products) : products[i].id \in PutIds => Changed(products[i])
    /\ \A i \in 1..pos : Changed(products[i]) => products[i].id \in PutIds
    /\ (\A i \in 1..Len(products) : ~Changed(products[i])) =>
          /\ putLog = <<>>
          /\ updated = 0
          /\ pc = "done" => (skipped = Len(products) /\ summary[1].skipped = Len(products)
                             /\ summary[1].updated = 0)

C7_Witness ==
    /\ pc = "done"
    /\ Len(products) >= 4
    /\ \A i \in 1..Len(products) : ~Changed(products[i])
    /\ skipped = Len(products)

\* C8: when the run completes (every request succeeded) the update requests
\* are the products the transform changes, in the order the server listed
\* them, each carrying the cleaned description, and updated + skipped =
\* total = number of enumerated products.
C8_WritesInServerOrder ==
    pc = "done" =>
        LET changed == SelectSeq(products, Changed) IN
          /\ putLog = [j \in 1..Len(changed) |->
                         [id |-> changed[j].id,
                          body_html |-> clean_description(changed[j].body_html)]]
          /\ summary = <<[updated |-> Len(changed),
                          skipped |-> Len(products) - Len(changed),
                          total   |-> Len(products)]>>
          /\ updated + skipped = Len(products)
          /\ products = Flatten([i \in 1..Len(pageLog) |-> pageLog[i].data])

C8_Witness ==
    /\ pc = "done"
    /\ Len(pageLog) = 3
    /\ \A i \in 1..3 : Len(pageLog[i].data) = 2
    /\ [j \in 1..Len(putLog) |-> putLog[j].id] = <<1, 3, 5>>
    /\ summary = <<[updated |-> 3, skipped |-> 3, total |-> 6]>>

\* the listing completed and produced at least one product
EnumeratedSome == pc \in {"clean", "done", "crashed"} /\ Len(getLog) = Len(pageLog)
                  /\ products # <<>>

\* C9: a run that enumerated at least one item and has ended has reported
\* the summary of counts, also when it ended on a failed write.
C9_SummaryAlwaysReported ==
    (EnumeratedSome /\ pc \in {"done", "crashed"}) => summary # <<>>

(***************************************************************************)
(* Properties of the upload run (SpecUpload)                               *)
(***************************************************************************)
\* every files page but the last has hasNextPage = true, the last has false
WellFormedFiles ==
    LET n == Len(filePages) IN
      /\ n >= 1
      /\ \A i \in 1..(n - 1) : filePages[i].pageInfo.hasNextPage
      /\ ~filePages[n].pageInfo.hasNextPage

AllEdges == Flatten([i \in 1..Len(filePages) |-> filePages[i].edges])

\* C5: over such a sequence of pages existing_filenames queries each page
\* once, with the previous page's endCursor as cursor (null for the first),
\* collects the keys of every edge of every page, and makes no query after
\* the page with hasNextPage = false.
C5_BodyCursorEnumeration ==
    WellFormedFiles =>
        LET n == Len(filePages) IN
          /\ Len(cursorLog) = n
          /\ cursorLog[1] = None
          /\ \A i \in 1..(n - 1) : cursorLog[i + 1] = filePages[i].pageInfo.endCursor
          /\ \A i \in DOMAIN AllEdges :
               /\ AllEdges[i].typename \in {"GenericFile", "MediaImage"}
                    => AllEdges[i].url.path[Len(AllEdges[i].url.path)] \in names
               /\ AllEdges[i].alt # <<>> => Strip(AllEdges[i].alt[1]) \in names
          /\ upc # "index"
          /\ upc = "crashed" => callLog # <<>>
          /\ already = {Normalise(k) : k \in names}

C5_Witness ==
    /\ WellFormedFiles
    /\ Len(filePages) = 3
    /\ filePages[1].pageInfo.endCursor = "c2"
    /\ filePages[2].pageInfo.endCursor = "c1"
    /\ \A i \in 1..3 : filePages[i].edges # <<>>
    /\ Cardinality(names) >= 2
    /\ upc = "upload"

\* C6: a page with zero items ends the enumeration: no page request follows
\* an empty page, whatever next-page signal it carries.
C6_EmptyPageEndsEnumeration ==
    \A i \in DOMAIN filePages :
        filePages[i].edges = <<>> => Len(cursorLog) <= i

\* the keys of a remote record as stored: URL basename and alt label
RecordKeys(node) ==
    (IF node.typename \in {"GenericFile", "MediaImage"} THEN {Basename(node.url)} ELSE {})
    \cup (IF node.alt # <<>> THEN {node.alt[1]} ELSE {})

\* C10: a local file is left out of the upload exactly when its normalised
\* name equals the normalised stored name or label of some remote record,
\* with the same normalisation (lowercase, .jpeg -> .jpg) on both sides.
C10_SameNormalisationBothSides ==
    upc \in {"upload", "nothing"} =>
        \A i \in DOMAIN folder :
            (folder[i] \notin Range(to_upload))
            <=> (\E j \in DOMAIN AllEdges : \E key \in RecordKeys(AllEdges[j]) :
                    Normalise(folder[i]) = Normalise(key))

\* C11: over two consecutive runs on the same folder, a file whose transfer
\* succeeded and whose finalize failed in the first run is selected again by
\* the second run (the failed finalize left nothing the index can see).
C11_FailedFinalizeSelectedAgain ==
    (run = 2 /\ prevAlready # <<>> /\ IndexComplete) =>
        \A name \in Range(folder) :
            (/\ Call(name, "transfer", TRUE) \in Range(prevLog)
             /\ Call(name, "finalize", FALSE) \in Range(prevLog))
            => name \in Range(to_upload)

\* the three calls of one file's pipeline, all successful
Pipeline(name) ==
    <<Call(name, "negotiate", TRUE), Call(name, "transfer", TRUE), Call(name, "finalize", TRUE)>>

AllSucceeded == \A i \in DOMAIN callLog : callLog[i].ok

\* C12: in a run where every request succeeds, a local file whose normalised
\* name is in the index gets no negotiate, transfer or finalize call, and
\* every other file gets exactly one of each, in folder order.
C12_OnePipelinePerMissingFile ==
    (upc \in {"done", "nothing"} /\ AllSucceeded) =>
        LET missing == SelectSeq(folder, LAMBDA name : Normalise(name) \notin already)
        IN  callLog = Flatten([i \in 1..Len(missing) |-> Pipeline(missing[i])])

C12_Witness ==
    /\ upc = "done"
    /\ folder = <<A_JPG, B_PNG>>
    /\ \E i \in DOMAIN ServedEdges : ServedEdges[i].alt = <<A_JPEG>>
    /\ callLog = Pipeline(B_PNG)

\* C13: a failed negotiation ends the pipeline of that file only: every
\* later file of the selection is still negotiated.
C13_NegotiateFailureIsPerFile ==
    (upc = "crashed" /\ callLog # <<>> /\ callLog[Len(callLog)].phase = "negotiate") =>
        \A k \in DOMAIN to_upload :
            \E i \in DOMAIN callLog :
                callLog[i].phase = "negotiate" /\ callLog[i].file = to_upload[k]

\* C14: within one run no two pipelines run for local files that have the
\* same existence key.
C14_OnePipelinePerKey ==
    \A i, j \in DOMAIN callLog :
        (i # j /\ callLog[i].phase = "negotiate" /\ callLog[j].phase = "negotiate")
        => Normalise(callLog[i].file) # Normalise(callLog[j].file)

\* C16: per file the calls are negotiate, transfer, finalize in this order,
\* each at most once in a run; a transfer directly follows the successful
\* negotiation of its file, a finalize directly follows the successful
\* transfer of its file, and no call for a file follows its failed transfer.
C16_PipelineOrder ==
    \A i \in DOMAIN callLog :
        /\ callLog[i].phase = "transfer"
             => i > 1 /\ callLog[i - 1] = Call(callLog[i].file, "negotiate", TRUE)
        /\ callLog[i].phase = "finalize"
             => i > 1 /\ callLog[i - 1] = Call(callLog[i].file, "transfer", TRUE)
        /\ \A j \in DOMAIN callLog :
             (j # i /\ callLog[j].file = callLog[i].file) => callLog[j].phase # callLog[i].phase
        /\ (callLog[i].phase = "transfer" /\ ~callLog[i].ok)
             => \A j \in DOMAIN callLog : j > i => callLog[j].file # callLog[i].file

C16_Witness ==
    /\ Len(callLog) = 5
    /\ callLog[3] = Call(to_upload[1], "finalize", TRUE)
    /\ callLog[5] = Call(to_upload[2], "transfer", FALSE)
    /\ upc = "crashed"

(***************************************************************************)
(* Properties of the metafield-cleanup run (SpecMeta)                      *)
(***************************************************************************)
\* C2: on a request path that handles rate limiting, the response the caller
\* acts on is never a 429: the request was retried after the wait, and the
\* caller sees a success or an error raised when the retries are spent.
C2_CallerNeverSees429 ==
    last # <<>> => last[1].status # 429

\* the delete requests a run owes: the woo metafields of every list a
\* get_metafields call returned, in order
Owed == Flatten([k \in 1..Len(fetched) |->
                   SelectSeq(fetched[k], LAMBDA mf : StartsWith(mf.namespace, WOO))])

DeletedIds == [i \in 1..Len(deleteLog) |-> deleteLog[i].id]

OwedIds == [i \in 1..Len(Owed) |-> Owed[i].id]

\* C15: a delete that fails (any status but 200) does not end the run: the
\* metafields of every later item are still listed, and a delete is still
\* requested for every woo metafield that comes after the failed one, on the
\* same item and on the later ones.
C15_FailedDeleteDoesNotAbort ==
    \A i \in DOMAIN deleteLog :
        deleteLog[i].status # 200 =>
            /\ mpc = "done" => Len(fetched) = Len(items)
            /\ (mpc = "done" \/ (mpc = "delete" /\ mf_i = Len(metafields))) =>
                 /\ Len(deleteLog) = Len(Owed)
                 /\ \A j \in (i + 1)..Len(Owed) : deleteLog[j].id = Owed[j].id

C15_Witness ==
    /\ mpc = "done"
    /\ \E i \in DOMAIN deleteLog :
         /\ deleteLog[i].status = 500
         /\ Len(deleteLog) >= i + 2
         /\ \E k \in DOMAIN items : \E a, b \in DOMAIN items[k].metafields :
              a < b /\ items[k].metafields[a].id = deleteLog[i].id
                    /\ items[k].metafields[b].id = deleteLog[i + 1].id
         /\ deleteLog[i + 2].id \notin {deleteLog[i].id, deleteLog[i + 1].id}

\* C17: get_all_resources follows the rel="next" relation: on a finite
\* listing whose last page advertises no next page, also with pages whose
\* Link header lists previous before next, it requests the pages once each,
\* in forward order.
C17_FollowsNextRelation ==
    \A i \in DOMAIN listLog : i <= Len(shop) /\ listLog[i] = shop[i].url

\* C19: a delete is requested only for metafields whose namespace starts
\* with "woo", never for another namespace and never for an item, and every
\* woo metafield of a list returned by get_metafields gets exactly one
\* delete request, in list order.
C19_DeletesExactlyWoo ==
    /\ \A i \in DOMAIN deleteLog :
         /\ \E k \in DOMAIN items : \E m \in DOMAIN items[k].metafields :
              /\ items[k].metafields[m].id = deleteLog[i].id
              /\ StartsWith(items[k].metafields[m].namespace, WOO)
         /\ \A k \in DOMAIN items : items[k].id # deleteLog[i].id
    /\ Len(deleteLog) <= Len(Owed)
    /\ DeletedIds = SubSeq(OwedIds, 1, Len(deleteLog))
    /\ (mpc \in {"scan", "done"} \/ mf_i = Len(metafields)) => DeletedIds = OwedIds

C19_Witness ==
    /\ mpc = "done"
    /\ Len(deleteLog) >= 2
    /\ \E k \in DOMAIN fetched : \E m \in DOMAIN fetched[k] :
         ~StartsWith(fetched[k][m].namespace, WOO) /\ StartsWith(fetched[k][m].namespace, WO)

(***************************************************************************)
(* Further properties of _request (SpecRequest) and of the description     *)
(* run (SpecDesc)                                                          *)
(***************************************************************************)
\* C18: in _request a response that is neither 429 nor a success is raised
\* on that attempt: no request and no Retry-After sleep follows it, however
\* many 429s came before.
C18_OtherErrorsRaiseAtOnce ==
    \A i \in DOMAIN events :
        (/\ events[i].ev = "response"
         /\ events[i].resp[1].status # 429
         /\ events[i].resp[1].status >= 400)
        => /\ outcome = "raised"
           /\ \A j \in DOMAIN events :
                j > i => events[j].ev # "response" /\ events[j].kind # "retry"

C18_Witness ==
    /\ outcome = "raised"
    /\ Len(Received) = 3
    /\ Received[1].status = 429
    /\ Received[2].status = 429
    /\ Received[3].status = 500

\* C20: in the description run every page request comes before every update
\* request: an update is only sent once every page request made has returned
\* its page, and no page is requested after an update, so if a page fetch
\* fails no update is sent.
C20_ListingBeforeWrites ==
    [][ /\ getLog' # getLog => putLog' = <<>>
        /\ putLog' # putLog => (Len(pageLog) = Len(getLog) /\ getLog' = getLog) ]_vars

C20_Witness ==
    /\ pc = "crashed"
    /\ Len(getLog) = 2
    /\ Len(pageLog) = 1
    /\ \E i \in DOMAIN products :
         clean_description(products[i].body_html) # products[i].body_html
    /\ putLog = <<>>

====
